---------------------------- MODULE Spec2Model ----------------------------
(***************************************************************************)
(* MediaEnhanceAI: the adaptive audio cleaner (audio_enhancer/core.py),    *)
(* its parameter derivation, its correction pipeline and the batch         *)
(* drivers that call it; and the adaptive video enhancer                   *)
(* (video_enhancer/core.py), its analysis, derivation and frame loop.      *)
(*                                                                         *)
(* Number representation.  Samples are float32 in the source; here a       *)
(* sample is an integer count of 1/Unit (a binary grid, so 0.75 is on the  *)
(* grid and 0.8, 0.85 are not, as in float32).  Parameters the code writes *)
(* as decimal literals are kept in hundredths (0.7 -> 70, 0.85 -> 85).     *)
(* The noise floor is kept in 1/10000 and the SNR in whole dB.             *)
(***************************************************************************)
EXTENDS Integers, Sequences, FiniteSets, TLC

\* ------------------------------------------------------------------ bounds
\* Largest channel count of a source file.
MaxChannels == 2
\* Samples per channel of a non-empty source file.
NumSamples == 2
\* Longest batch handed to a batch driver.
MaxFiles == 3
\* Largest channel count of a source whose layout restore_stereo is asked
\* to restore.
MaxLayoutChannels == 3
\* Most frames a source video holds.
MaxFrames == 2
\* Largest frame count the sample indices are chosen for.
MaxSampledCount == 60
\* Most files in the GUI's list, and most worker threads started.
MaxGuiFiles == 2
MaxThreads == 2

\* --------------------------------------------------------------- numerics
\* One sample unit is 1/Unit of full scale (np.float32 samples).
Unit == 1024
\* IEEE NaN as numpy produces it for the mean of an empty slice; every
\* ordered comparison with it is false.  All real metrics are >= 0.
NaN == -1

Gt(x, t) == x # NaN /\ x > t
Lt(x, t) == x # NaN /\ x < t

Abs(x) == IF x < 0 THEN -x ELSE x
Max(a, b) == IF a >= b THEN a ELSE b
Min(a, b) == IF a <= b THEN a ELSE b

\* Round-to-nearest quotient of integers (b > 0), the rounding of a float
\* operation's exact result to the representable grid.
RoundDiv(a, b) == IF a >= 0 THEN (2 * a + b) \div (2 * b)
                            ELSE -((2 * (-a) + b) \div (2 * b))

RECURSIVE SeqMax(_)
SeqMax(s) == IF Len(s) = 0 THEN 0 ELSE Max(Head(s), SeqMax(Tail(s)))

RECURSIVE SeqSum(_)
SeqSum(s) == IF Len(s) = 0 THEN 0 ELSE Head(s) + SeqSum(Tail(s))

\* ------------------------------------------------------------------ state
VARIABLES
    \* the source file on disk and the constructor arguments
    file, target_sr,
    \* AudioCleaner fields
    audio, analysis_audio, sr, channels, is_stereo,
    processing_params, needs_processing,
    \* the measurements of analyze_quality (its local variables) and the
    \* parameter record after each derivation rule, in rule order
    metrics, rule_log,
    \* position inside process(), the stages invoked so far, which delegated
    \* stages failed, and what process() gave its caller
    pc, stages, skipped, result,
    \* the file save_audio wrote
    output,
    \* the batch drivers
    driver, dry_run, batch, idx, attempted, saved, successful, failed, exit_code,
    \* the resolution option picked in a front end and the source video
    choice, video,
    \* VideoEnhancer fields
    target_resolution, cap, fps, frame_count, width, height, enhancement_params,
    \* locals of analyze_video (the manual frame count, the averaged metrics)
    counted, vmetrics,
    \* the VideoWriter of process(), its position and what it returned
    out, vpc, vresult,
    \* the indices analyze_video samples, and one pixel of a frame before
    \* and while enhance_frame works on it
    sample_indices, source_pixel, pixel,
    \* the GUI: its files, its flag, its two buttons and the worker threads
    \* start_processing has started
    files_to_process, is_processing, start_btn, stop_btn, threads

audio_vars == <<file, target_sr, audio, analysis_audio, sr, channels, is_stereo,
                processing_params, needs_processing, metrics, rule_log,
                pc, stages, skipped, result, output>>
batch_vars == <<driver, dry_run, batch, idx, attempted, saved, successful, failed,
                exit_code>>
video_vars == <<choice, video, target_resolution, cap, fps, frame_count, width, height,
                enhancement_params, counted, vmetrics, out, vpc, vresult,
                sample_indices, source_pixel, pixel>>
pixel_vars == <<source_pixel, pixel>>
gui_vars == <<files_to_process, is_processing, start_btn, stop_btn, threads>>
vars == <<audio_vars, batch_vars, video_vars, gui_vars>>

\* ------------------------------------------------- parameter derivation
\* processing_params as analyze_quality resets it, with self.needs_processing
\* carried in the same record.
DefaultParams ==
    [noise_reduction |-> 0, high_pass_cutoff |-> 0,
     normalization_target |-> 80, needs_limiting |-> FALSE,
     needs_processing |-> FALSE]

\* snr = 20*log10(signal_level/noise_floor) when noise_floor > 0, else 100.
\* ratio_db is the value of the logarithm expression.
Snr(noise_floor, ratio_db) == IF Gt(noise_floor, 0) THEN ratio_db ELSE 100

\* Rule 1 with the last band closed at 40 dB (<= for <).
RuleSnrLoose(p, snr) ==
    IF Lt(snr, 15) THEN [p EXCEPT !.noise_reduction = 70, !.needs_processing = TRUE]
    ELSE IF Lt(snr, 25) THEN [p EXCEPT !.noise_reduction = 50, !.needs_processing = TRUE]
    ELSE IF snr <= 40 THEN [p EXCEPT !.noise_reduction = 30, !.needs_processing = TRUE]
    ELSE [p EXCEPT !.noise_reduction = 0]

\* Rule 1: noise reduction amount by SNR band.
RuleSnr(p, snr) ==
    IF Lt(snr, 15) THEN [p EXCEPT !.noise_reduction = 70, !.needs_processing = TRUE]
    ELSE IF Lt(snr, 25) THEN [p EXCEPT !.noise_reduction = 50, !.needs_processing = TRUE]
    ELSE IF Lt(snr, 40) THEN [p EXCEPT !.noise_reduction = 30, !.needs_processing = TRUE]
    ELSE [p EXCEPT !.noise_reduction = 0]

\* Rule 2 with a larger step and the cap left out.
RuleHfUncapped(p, hf_ratio) ==
    IF Gt(hf_ratio, 30)
    THEN [p EXCEPT !.noise_reduction = p.noise_reduction + 20]
    ELSE p

\* Rule 2 clearing needs_processing when it fires.
RuleHfResets(p, hf_ratio) ==
    IF Gt(hf_ratio, 30)
    THEN [p EXCEPT !.noise_reduction = Min(p.noise_reduction + 10, 80),
                   !.needs_processing = FALSE]
    ELSE p

\* Rule 2: high-frequency noise raises the amount by 0.1, capped at 0.8.
RuleHf(p, hf_ratio) ==
    IF Gt(hf_ratio, 30)
    THEN [p EXCEPT !.noise_reduction = Min(p.noise_reduction + 10, 80)]
    ELSE p

\* Rule 3 with the 60 Hz and 40 Hz cutoffs exchanged.
RuleNoiseFloorSwapped(p, noise_floor) ==
    IF Gt(noise_floor, 100) THEN [p EXCEPT !.high_pass_cutoff = 80, !.needs_processing = TRUE]
    ELSE IF Gt(noise_floor, 50) THEN [p EXCEPT !.high_pass_cutoff = 40, !.needs_processing = TRUE]
    ELSE IF Gt(noise_floor, 20) THEN [p EXCEPT !.high_pass_cutoff = 60]
    ELSE [p EXCEPT !.high_pass_cutoff = 0]

\* Rule 3: high-pass cutoff by noise floor (1/10000 units).
RuleNoiseFloor(p, noise_floor) ==
    IF Gt(noise_floor, 100) THEN [p EXCEPT !.high_pass_cutoff = 80, !.needs_processing = TRUE]
    ELSE IF Gt(noise_floor, 50) THEN [p EXCEPT !.high_pass_cutoff = 60, !.needs_processing = TRUE]
    ELSE IF Gt(noise_floor, 20) THEN [p EXCEPT !.high_pass_cutoff = 40]
    ELSE [p EXCEPT !.high_pass_cutoff = 0]

\* Rule 4 with the clipping branch normalizing to 0.99.
RulePeakClipTarget99(p, peak) ==
    IF Gt(peak * 100, 99 * Unit)
    THEN [p EXCEPT !.needs_limiting = TRUE, !.normalization_target = 99,
                   !.needs_processing = TRUE]
    ELSE IF Lt(peak * 100, 20 * Unit)
    THEN [p EXCEPT !.normalization_target = 80, !.needs_processing = TRUE]
    ELSE IF Lt(peak * 100, 50 * Unit)
    THEN [p EXCEPT !.normalization_target = 80]
    ELSE [p EXCEPT !.normalization_target = 85]

\* Rule 4 with the clipping branch not flagging the limiter.
RulePeakNoLimit(p, peak) ==
    IF Gt(peak * 100, 99 * Unit)
    THEN [p EXCEPT !.normalization_target = 75, !.needs_processing = TRUE]
    ELSE IF Lt(peak * 100, 20 * Unit)
    THEN [p EXCEPT !.normalization_target = 80, !.needs_processing = TRUE]
    ELSE IF Lt(peak * 100, 50 * Unit)
    THEN [p EXCEPT !.normalization_target = 80]
    ELSE [p EXCEPT !.normalization_target = 85]

\* Rule 4: normalization target and limiter by peak (sample units; the
\* thresholds 0.99, 0.2, 0.5 are compared exactly by cross-multiplying).
RulePeak(p, peak) ==
    IF Gt(peak * 100, 99 * Unit)
    THEN [p EXCEPT !.needs_limiting = TRUE, !.normalization_target = 75,
                   !.needs_processing = TRUE]
    ELSE IF Lt(peak * 100, 20 * Unit)
    THEN [p EXCEPT !.normalization_target = 80, !.needs_processing = TRUE]
    ELSE IF Lt(peak * 100, 50 * Unit)
    THEN [p EXCEPT !.normalization_target = 80]
    ELSE [p EXCEPT !.normalization_target = 85]

\* The four rules in source order; element k is the record after rule k.
DeriveLog(m) ==
    LET p1 == RuleSnr(DefaultParams, m.snr)
        p2 == RuleHf(p1, m.hf_ratio)
        p3 == RuleNoiseFloor(p2, m.noise_floor)
        p4 == RulePeak(p3, m.peak)
    IN  <<p1, p2, p3, p4>>

ParamsOf(p) ==
    [noise_reduction |-> p.noise_reduction, high_pass_cutoff |-> p.high_pass_cutoff,
     normalization_target |-> p.normalization_target,
     needs_limiting |-> p.needs_limiting]


\* ------------------------------------------------------ the source file
\* Sample rates of source files and target_sample_rate arguments.  A target
\* of 0 is what `--sample-rate 0` passes through unchecked.
SourceRates == {16000, 48000}
TargetRates == {0, 16000, 48000}

\* A channel of NumSamples samples at level v, alternating in sign.
Wave(v) == [i \in 1..NumSamples |-> IF i % 2 = 1 THEN v ELSE -(v \div 2)]

\* Levels on both sides of each peak threshold (0.2, 0.5, 0.99 of Unit).
MonoLevels == {0, 204, 205, 511, 512, 1013, 1014}
\* Levels of the channels of a multi-channel file: silent, mid, and an
\* inverted full-scale channel.
ChannelLevels == {0, 512, -1014}

MonoData == {<<Wave(v)>> : v \in MonoLevels}
MultiData ==
    UNION {{[c \in 1..n |-> Wave(lv[c])] : lv \in [1..n -> ChannelLevels]}
           : n \in 2..MaxChannels}
\* A decodable file with no frames: every channel is empty.
EmptyData == {[c \in 1..n |-> <<>>] : n \in 1..MaxChannels}

Files ==
    {[loadable |-> TRUE, data |-> d, rate |-> r]
        : d \in MonoData \cup MultiData \cup EmptyData, r \in SourceRates}
    \cup {[loadable |-> FALSE, data |-> <<>>, rate |-> 0]}

\* ------------------------------------------------------------ the buffer
\* self.audio: ndim 0 stands for None, ndim 1 for a 1-D array (ch holds the
\* one channel), ndim 2 for a (channels, samples) array.
NoAudio == [ndim |-> 0, ch |-> <<>>]

NoMetrics == [peak |-> NaN, noise_floor |-> NaN, snr |-> NaN, hf_ratio |-> NaN,
              measured |-> FALSE]

\* librosa.to_mono: the per-sample mean over the channels.
ToMono(a) ==
    IF a.ndim = 1 THEN a.ch[1]
    ELSE [i \in 1..Len(a.ch[1]) |->
            RoundDiv(SeqSum([c \in 1..Len(a.ch) |-> a.ch[c][i]]), Len(a.ch))]

\* np.abs(x).max() over every sample of every channel.
BufferPeak(a) ==
    SeqMax([c \in 1..Len(a.ch) |-> SeqMax([i \in 1..Len(a.ch[c]) |-> Abs(a.ch[c][i])])])

Silent(a) == \A c \in 1..Len(a.ch) : \A i \in 1..Len(a.ch[c]) : a.ch[c][i] = 0

\* ---------------------------------------------------- the measurements
\* Measured values on both sides of every threshold of the derivation.
NoiseFloorValues == {0, 20, 21, 50, 51, 100, 101, NaN}
RatioDbValues == {14, 15, 24, 25, 39, 40}
HfRatioValues == {30, 31}

\* 100 * 10^(d/20), rounded down: the amplitude ratio of d dB.
Pow10Db(d) ==
    CASE d = 14 -> 501 [] d = 15 -> 562 [] d = 24 -> 1584
      [] d = 25 -> 1778 [] d = 39 -> 8912 [] d = 40 -> 10000

\* What one analysis pass can measure together: the noise floor (mean of the
\* quietest tenth) and the signal level (mean of the loudest half) are both
\* at most the peak, and signal_level = noise_floor * 10^(ratio_db/20).
Consistent(peak, noise_floor, ratio_db) ==
    IF ~Gt(noise_floor, 0) THEN TRUE
    ELSE /\ noise_floor * Unit <= peak * 10000
         /\ noise_floor * Pow10Db(ratio_db) * Unit <= peak * 1000000

\* The frequency bins above 8 kHz exist only when sr/2 > 8000; with none the
\* high-frequency mean is the mean of an empty slice.
HfMeasurable(rate) == rate > 16000

\* -------------------------------------------------- delegated operations
\* nr.reduce_noise is a black box returning a same-length channel: the
\* channel unchanged, attenuated by the proportion, or silenced.
ReduceNoiseOutputs(chan, amount) ==
    {chan,
     [i \in 1..Len(chan) |-> RoundDiv(chan[i] * (100 - amount), 100)],
     [i \in 1..Len(chan) |-> 0]}

\* signal.filtfilt with a high-pass design: the channel with its mean (the
\* content below the cutoff) removed.
HighPassOutput(chan) ==
    LET mean == RoundDiv(SeqSum(chan), Len(chan))
    IN  [i \in 1..Len(chan) |-> chan[i] - mean]

\* Every way reduce_noise can answer for the channels of a, one call per
\* channel.
ReduceNoiseAnswers(a, amount) ==
    {outs \in [1..Len(a.ch) ->
                UNION {ReduceNoiseOutputs(a.ch[c], amount) : c \in 1..Len(a.ch)}] :
        \A c \in 1..Len(a.ch) : outs[c] \in ReduceNoiseOutputs(a.ch[c], amount)}

\* _apply_channelwise when func succeeded on every channel: a 1-D buffer is
\* replaced by func's result, a 2-D one by the vstack of the results.
ApplyChannelwise(a, n_channels, outs) ==
    IF n_channels <= 1 THEN [ndim |-> 1, ch |-> <<outs[1]>>]
    ELSE [ndim |-> 2, ch |-> outs]

\* _apply_channelwise when func raised on channel k: the results so far live
\* in the local list processed_channels and self.audio was never assigned.
ChannelwiseRaised(a, outs, k) == a

\* smart_normalize: self.audio * (target / peak).  The quotient is rounded
\* to the grid before the product, and the product is rounded again.
Gain(target, peak) == RoundDiv(target * Unit * Unit, 100 * peak)

Scale(a, gain) ==
    [a EXCEPT !.ch = [c \in 1..Len(a.ch) |->
        [i \in 1..Len(a.ch[c]) |-> RoundDiv(a.ch[c][i] * gain, Unit)]]]

\* smart_normalize taking the peak as self.audio.max(), without np.abs.
SmartNormalizeSignedPeak(a, target) ==
    LET peak == SeqMax([c \in 1..Len(a.ch) |-> SeqMax(a.ch[c])])
    IN  IF peak > 0 THEN Scale(a, Gain(target, peak)) ELSE a

SmartNormalize(a, target) ==
    LET peak == BufferPeak(a)
    IN  IF peak > 0 THEN Scale(a, Gain(target, peak)) ELSE a

\* 10 ** (-0.5 / 20) = 0.94406..., on the sample grid.
ThresholdLinear == 967

\* gentle_limiter: np.clip(self.audio, -threshold_linear, threshold_linear).
GentleLimiter(a) ==
    [a EXCEPT !.ch = [c \in 1..Len(a.ch) |->
        [i \in 1..Len(a.ch[c]) |->
            Max(-ThresholdLinear, Min(ThresholdLinear, a.ch[c][i]))]]]

\* librosa.resample raises for a target rate that is not positive.
ResampleRaises(rate, target) == target <= 0

\* librosa.resample along the last axis: ceil(n * target / rate) samples per
\* channel, each taken from the source sample at the same time.
ResampleChannel(chan, rate, target) ==
    LET n == (Len(chan) * target + rate - 1) \div rate
    IN  [j \in 1..n |-> chan[Min(Len(chan), ((j - 1) * rate) \div target + 1)]]

Resample(a, rate, target) ==
    [a EXCEPT !.ch = [c \in 1..Len(a.ch) |-> ResampleChannel(a.ch[c], rate, target)]]

\* resample_if_needed leaving self.sr at the source rate.
ResampleKeepsRate(a, rate, target) ==
    IF rate # target THEN [audio |-> Resample(a, rate, target), sr |-> rate]
    ELSE [audio |-> a, sr |-> rate]

\* resample_if_needed on a loaded buffer, when librosa.resample returns:
\* the new self.audio and self.sr.
ResampleIfNeededResult(a, rate, target) ==
    IF rate # target THEN [audio |-> Resample(a, rate, target), sr |-> target]
    ELSE [audio |-> a, sr |-> rate]

\* restore_stereo without its is_stereo test.
RestoreStereoAnySource(a, stereo) ==
    IF a.ndim = 1 THEN [ndim |-> 2, ch |-> <<a.ch[1], a.ch[1]>>] ELSE a

\* restore_stereo: a 1-D buffer of a stereo source is stacked on itself.
RestoreStereo(a, stereo) ==
    IF ~stereo \/ a.ndim = 0 THEN a
    ELSE IF a.ndim = 1 THEN [ndim |-> 2, ch |-> <<a.ch[1], a.ch[1]>>]
    ELSE a

\* No file written.
NoOutput == [written |-> FALSE, rate |-> 0, frames |-> 0, channels |-> 0]

\* sf.write(output_file, audio_to_save, sr): soundfile reads a 1-D array as
\* one channel and a 2-D one as (frames, channels); save_audio transposes
\* the (channels, samples) buffer only when is_stereo.
WrittenFile(a, stereo, rate) ==
    IF a.ndim = 1
    THEN [written |-> TRUE, rate |-> rate, frames |-> Len(a.ch[1]), channels |-> 1]
    ELSE IF stereo
    THEN [written |-> TRUE, rate |-> rate, frames |-> Len(a.ch[1]),
          channels |-> Len(a.ch)]
    ELSE [written |-> TRUE, rate |-> rate, frames |-> Len(a.ch),
          channels |-> Len(a.ch[1])]

\* ------------------------------------------------- process(): sequencing
\* process() resampling before it normalizes.
NextStageResampleFirst(stage, np, pp) ==
    CASE stage = "analyze" ->
            IF np /\ pp.noise_reduction > 0 THEN "noise_reduction"
            ELSE IF np /\ pp.high_pass_cutoff > 0 THEN "high_pass"
            ELSE "resample"
      [] stage = "noise_reduction" ->
            IF pp.high_pass_cutoff > 0 THEN "high_pass" ELSE "resample"
      [] stage = "high_pass" -> "resample"
      [] stage = "resample" -> "normalize"
      [] stage = "normalize" -> IF pp.needs_limiting THEN "limit" ELSE "restore"
      [] stage = "limit" -> "restore"
      [] stage = "restore" -> "done"

\* The stage process() calls after `stage`, given what analysis returned.
NextStage(stage, np, pp) ==
    CASE stage = "analyze" ->
            IF np /\ pp.noise_reduction > 0 THEN "noise_reduction"
            ELSE IF np /\ pp.high_pass_cutoff > 0 THEN "high_pass"
            ELSE "normalize"
      [] stage = "noise_reduction" ->
            IF pp.high_pass_cutoff > 0 THEN "high_pass" ELSE "normalize"
      [] stage = "high_pass" -> "normalize"
      [] stage = "normalize" -> IF pp.needs_limiting THEN "limit" ELSE "resample"
      [] stage = "limit" -> "resample"
      [] stage = "resample" -> "restore"
      [] stage = "restore" -> "done"

\* ---------------------------------------------------------- idle parts
\* processing_params = {} of __init__: no key is set, and nothing reads one
\* before analyze_quality assigns the record.
NoParams ==
    [noise_reduction |-> 0, high_pass_cutoff |-> 0,
     normalization_target |-> 0, needs_limiting |-> FALSE]

\* AudioCleaner.__init__
NewCleaner ==
    /\ audio = NoAudio
    /\ analysis_audio = <<>>
    /\ sr = 0
    /\ channels = 0
    /\ is_stereo = FALSE
    /\ processing_params = NoParams
    /\ needs_processing = FALSE
    /\ metrics = NoMetrics
    /\ rule_log = <<>>
    /\ stages = <<>>
    /\ skipped = {}
    /\ result = "none"
    /\ output = NoOutput

NoBatch ==
    /\ driver = "none"
    /\ dry_run = FALSE
    /\ batch = <<>>
    /\ idx = 0
    /\ attempted = {}
    /\ saved = {}
    /\ successful = 0
    /\ failed = 0
    /\ exit_code = "none"

NoCleaner ==
    /\ file = [loadable |-> FALSE, data |-> <<>>, rate |-> 0]
    /\ target_sr = 48000
    /\ pc = "idle"
    /\ NewCleaner

\* The locals of analyze_quality are gone once it has returned.
ForgetLocals == metrics' = NoMetrics /\ rule_log' = <<>>

\* =============================================== the video enhancer
\* video_enhancer/core.py.  Metrics are whole numbers on the scales the code
\* compares them on (NaN as above), sharpen_amount is kept in tenths,
\* contrast_adjust in hundredths, fps in whole frames per second, and
\* upscale_factor as the fraction num/den.

\* target_resolution = None.
NoTarget == <<>>

\* The resolution option the user picks and the front ends offering it: the
\* GUI radio buttons, examples/batch_process.py --resolution, the menu of
\* video_enhancer/core.py main, and video_enhancer/cli.py.
FrontEnds == {"gui", "batch_process", "menu", "cli"}

Choices(front_end) ==
    IF front_end = "cli" THEN {"auto", "1080p", "4k"}
    ELSE {"auto", "1080p", "4k", "original"}

\* What each front end passes as target_resolution.  The GUI turns
\* "original" into a flag and then constructs with target_resolution=None;
\* batch_process and the menu leave target_res at None for it.
TargetResolutionOf(front_end, option) ==
    IF option = "1080p" THEN <<1920, 1080>>
    ELSE IF option = "4k" THEN <<3840, 2160>>
    ELSE NoTarget

\* Frame sizes of source videos, on both sides of 640, 1280 and 720 and of
\* the two target resolutions.
Resolutions ==
    {<<480, 270>>, <<639, 360>>, <<640, 360>>, <<1279, 720>>, <<1280, 719>>,
     <<1280, 720>>, <<1920, 1080>>, <<2560, 720>>, <<3840, 2160>>}

\* A source video: whether VideoCapture opens it, how many frames it really
\* holds, and their size.
Videos ==
    {[openable |-> TRUE, frames |-> n, size |-> s]
        : n \in 0..MaxFrames, s \in Resolutions}
    \cup {[openable |-> FALSE, frames |-> 0, size |-> <<0, 0>>]}

\* What the container reports: CAP_PROP_FPS and CAP_PROP_FRAME_COUNT may be
\* missing (0) and the count may overstate the stream.
ReportedFps == {0, 25}
ReportedCounts(n) == {0, n, n + 1}

\* The validation test with the fps half left out.
NeedsRecountByCountOnly(count, rate) == count <= 0

\* `if self.frame_count <= 0 or self.fps <= 0`
NeedsRecount(count, rate) == count <= 0 \/ rate <= 0

\* cap.read() advancing two frames per call.
ReadFrameSkipping(c, v) ==
    IF c.pos < v.frames
    THEN [ret |-> TRUE, frame |-> c.pos, cap |-> [c EXCEPT !.pos = c.pos + 2]]
    ELSE [ret |-> FALSE, frame |-> -1, cap |-> c]

\* cap.read(): the frame at the cursor (frames are known by their index)
\* and the cursor moved past it, or ret = False at the end of the stream.
ReadFrame(c, v) ==
    IF c.pos < v.frames
    THEN [ret |-> TRUE, frame |-> c.pos, cap |-> [c EXCEPT !.pos = c.pos + 1]]
    ELSE [ret |-> FALSE, frame |-> -1, cap |-> c]

\* cap.set(CAP_PROP_POS_FRAMES, frame_idx) having no effect.
SeekIgnored(c, frame_idx) == c

\* cap.set(cv2.CAP_PROP_POS_FRAMES, frame_idx)
SeekFrame(c, frame_idx) == [c EXCEPT !.pos = frame_idx]

\* Sample indices spaced from 1 instead of 0.
SampleIndicesFromOne(n) ==
    LET k == Min(20, n)
    IN  IF k = 1 THEN <<0>>
        ELSE [i \in 1..k |-> Min(n - 1, 1 + ((i - 1) * (n - 1)) \div (k - 1))]

\* np.linspace(0, n - 1, min(20, n), dtype=int) for n >= 1.
SampleIndices(n) ==
    LET k == Min(20, n)
    IN  IF k = 1 THEN <<0>>
        ELSE [i \in 1..k |-> ((i - 1) * (n - 1)) \div (k - 1)]

\* Averaged metrics on both sides of every threshold of the derivation.
NoiseValues == {4, 5, 8, 9, 15, 16}
SharpnessValues == {99, 100, 299, 300, 499, 500}
BrightnessValues == {79, 80, 180, 181}
ContrastValues == {29, 30, 39, 40, 49, 50}

NoVMetrics == [noise |-> NaN, sharpness |-> NaN, brightness |-> NaN,
               contrast |-> NaN, measured |-> FALSE]

\* np.mean of the four lists: NaN for all of them when no sampled frame
\* could be read.
AveragedMetrics(n_read) ==
    IF n_read = 0
    THEN {[noise |-> NaN, sharpness |-> NaN, brightness |-> NaN, contrast |-> NaN,
           measured |-> TRUE]}
    ELSE {[noise |-> a, sharpness |-> b, brightness |-> c, contrast |-> d,
           measured |-> TRUE]
            : a \in NoiseValues, b \in SharpnessValues, c \in BrightnessValues,
              d \in ContrastValues}

\* enhancement_params = {} of __init__.
EmptyEnhancement ==
    [needs_upscaling |-> FALSE, upscale_factor |-> [num |-> 0, den |-> 1],
     denoise_strength |-> 0, sharpen_amount |-> 0, brightness_adjust |-> 0,
     contrast_adjust |-> 0, color_enhance |-> FALSE, set |-> FALSE]

\* The record analyze_video starts the derivation from.
DefaultEnhancement ==
    [needs_upscaling |-> FALSE, upscale_factor |-> [num |-> 1, den |-> 1],
     denoise_strength |-> 0, sharpen_amount |-> 0, brightness_adjust |-> 0,
     contrast_adjust |-> 100, color_enhance |-> FALSE, set |-> TRUE]

\* max(target_w / w, target_h / h), as a fraction.
MaxRatio(tw, w, th, h) ==
    IF tw * h >= th * w THEN [num |-> tw, den |-> w] ELSE [num |-> th, den |-> h]

\* The upscaling rule taking the smaller of the two ratios.
RuleUpscaleMinRatio(p, w, h, target) ==
    IF target # NoTarget
    THEN IF w < target[1] \/ h < target[2]
         THEN [p EXCEPT !.needs_upscaling = TRUE,
                        !.upscale_factor =
                            IF target[1] * h >= target[2] * w
                            THEN [num |-> target[2], den |-> h]
                            ELSE [num |-> target[1], den |-> w]]
         ELSE p
    ELSE IF w < 1280 \/ h < 720
         THEN [p EXCEPT !.needs_upscaling = TRUE,
                        !.upscale_factor = IF w < 640 THEN [num |-> 2, den |-> 1]
                                           ELSE [num |-> 3, den |-> 2]]
         ELSE p

\* The upscaling rule with the automatic branch looking at the width only.
RuleUpscaleWidthOnly(p, w, h, target) ==
    IF target # NoTarget
    THEN IF w < target[1] \/ h < target[2]
         THEN [p EXCEPT !.needs_upscaling = TRUE,
                        !.upscale_factor = MaxRatio(target[1], w, target[2], h)]
         ELSE p
    ELSE IF w < 1280
         THEN [p EXCEPT !.needs_upscaling = TRUE,
                        !.upscale_factor = IF w < 640 THEN [num |-> 2, den |-> 1]
                                           ELSE [num |-> 3, den |-> 2]]
         ELSE p

\* Determine upscaling.
RuleUpscale(p, w, h, target) ==
    IF target # NoTarget
    THEN IF w < target[1] \/ h < target[2]
         THEN [p EXCEPT !.needs_upscaling = TRUE,
                        !.upscale_factor = MaxRatio(target[1], w, target[2], h)]
         ELSE p
    ELSE IF w < 1280 \/ h < 720
         THEN [p EXCEPT !.needs_upscaling = TRUE,
                        !.upscale_factor = IF w < 640 THEN [num |-> 2, den |-> 1]
                                           ELSE [num |-> 3, den |-> 2]]
         ELSE p

\* Adaptive denoising.
RuleDenoise(p, noise) ==
    IF Gt(noise, 15) THEN [p EXCEPT !.denoise_strength = 10]
    ELSE IF Gt(noise, 8) THEN [p EXCEPT !.denoise_strength = 5]
    ELSE IF Gt(noise, 4) THEN [p EXCEPT !.denoise_strength = 3]
    ELSE p

\* Adaptive sharpening with the thresholds taken inclusively.
RuleSharpenInclusive(p, sharpness) ==
    IF Lt(sharpness, 101) THEN [p EXCEPT !.sharpen_amount = 15]
    ELSE IF Lt(sharpness, 301) THEN [p EXCEPT !.sharpen_amount = 8]
    ELSE IF Lt(sharpness, 501) THEN [p EXCEPT !.sharpen_amount = 3]
    ELSE p

\* Adaptive sharpening (amount in tenths).
RuleSharpen(p, sharpness) ==
    IF Lt(sharpness, 100) THEN [p EXCEPT !.sharpen_amount = 15]
    ELSE IF Lt(sharpness, 300) THEN [p EXCEPT !.sharpen_amount = 8]
    ELSE IF Lt(sharpness, 500) THEN [p EXCEPT !.sharpen_amount = 3]
    ELSE p

\* Adaptive brightness.
RuleBrightness(p, brightness) ==
    IF Lt(brightness, 80) THEN [p EXCEPT !.brightness_adjust = 30]
    ELSE IF Gt(brightness, 180) THEN [p EXCEPT !.brightness_adjust = -20]
    ELSE p

\* Adaptive contrast (factor in hundredths).
RuleContrast(p, contrast) ==
    IF Lt(contrast, 30) THEN [p EXCEPT !.contrast_adjust = 130]
    ELSE IF Lt(contrast, 50) THEN [p EXCEPT !.contrast_adjust = 115]
    ELSE p

\* Color enhancement decided inside the contrast chain: only where the
\* strongest contrast correction fired.
RuleColorChained(p, contrast) ==
    IF Lt(contrast, 30) THEN [p EXCEPT !.color_enhance = TRUE] ELSE p

\* Color enhancement for dull videos.
RuleColor(p, contrast) ==
    IF Lt(contrast, 40) THEN [p EXCEPT !.color_enhance = TRUE] ELSE p

\* The derivation of analyze_video, in source order.
DeriveEnhancement(m, w, h, target) ==
    RuleColor(
      RuleContrast(
        RuleBrightness(
          RuleSharpen(
            RuleDenoise(RuleUpscale(DefaultEnhancement, w, h, target), m.noise),
            m.sharpness),
          m.brightness),
        m.contrast),
      m.contrast)

\* int(d * factor)
ScaledDim(d, factor) == (d * factor.num) \div factor.den

\* enhance_frame running the unsharp mask before the denoiser.
EnhanceOpsSharpenFirst(p) ==
    (IF p.sharpen_amount > 0 THEN <<"sharpen">> ELSE <<>>)
    \o (IF p.denoise_strength > 0 THEN <<"denoise">> ELSE <<>>)
    \o (IF p.needs_upscaling THEN <<"upscale">> ELSE <<>>)
    \o (IF p.brightness_adjust # 0 THEN <<"brightness">> ELSE <<>>)
    \o (IF p.contrast_adjust # 100 THEN <<"contrast">> ELSE <<>>)
    \o (IF p.color_enhance THEN <<"color">> ELSE <<>>)

\* The operations enhance_frame applies to a frame, in the order applied.
EnhanceOps(p) ==
    (IF p.denoise_strength > 0 THEN <<"denoise">> ELSE <<>>)
    \o (IF p.needs_upscaling THEN <<"upscale">> ELSE <<>>)
    \o (IF p.sharpen_amount > 0 THEN <<"sharpen">> ELSE <<>>)
    \o (IF p.brightness_adjust # 0 THEN <<"brightness">> ELSE <<>>)
    \o (IF p.contrast_adjust # 100 THEN <<"contrast">> ELSE <<>>)
    \o (IF p.color_enhance THEN <<"color">> ELSE <<>>)

\* enhance_frame(frame): the source frame it came from, what was done to it
\* and the size it has now.
EnhanceFrame(frame, size, p) ==
    [src |-> frame, ops |-> EnhanceOps(p),
     size |-> IF p.needs_upscaling
              THEN <<ScaledDim(size[1], p.upscale_factor),
                     ScaledDim(size[2], p.upscale_factor)>>
              ELSE size]

\* The writer size rounded to nearest instead of truncated.
OutputSizeRounded(w, h, p) ==
    IF p.needs_upscaling
    THEN <<RoundDiv(w * p.upscale_factor.num, p.upscale_factor.den),
           RoundDiv(h * p.upscale_factor.num, p.upscale_factor.den)>>
    ELSE <<w, h>>

\* process(): out_width, out_height.
OutputSize(w, h, p) ==
    IF p.needs_upscaling
    THEN <<ScaledDim(w, p.upscale_factor), ScaledDim(h, p.upscale_factor)>>
    ELSE <<w, h>>

\* Largest value of a uint8 pixel.
MaxPixel == 255

\* cv2.convertScaleAbs(frame, alpha, beta) on one pixel: |alpha*x + beta|
\* rounded and saturated to uint8 (alpha in hundredths).
ConvertScaleAbs(x, alpha, beta) ==
    Min(MaxPixel, RoundDiv(Abs(alpha * x + 100 * beta), 100))

\* Step 4 of enhance_frame: the brightness pass.
BrightnessStage(x, p) ==
    IF p.brightness_adjust # 0 THEN ConvertScaleAbs(x, 100, p.brightness_adjust) ELSE x

\* Step 5 of enhance_frame: the contrast pass.
ContrastStage(x, p) ==
    IF p.contrast_adjust # 100 THEN ConvertScaleAbs(x, p.contrast_adjust, 0) ELSE x

\* self.cap = None, and no VideoWriter.
NoCapture == [state |-> "none", pos |-> 0]
NoWriter == [state |-> "none", fps |-> 0, size |-> <<0, 0>>, frames |-> <<>>]

\* The GUI's __init__: no files, nothing running, Start enabled.
NoGui ==
    /\ files_to_process = 0
    /\ is_processing = FALSE
    /\ start_btn = "normal"
    /\ stop_btn = "disabled"
    /\ threads = <<>>

\* VideoEnhancer.__init__ on no file: the state of the video side while an
\* audio run or a batch driver is modelled.
NoEnhancer ==
    /\ choice = "auto"
    /\ video = [openable |-> FALSE, frames |-> 0, size |-> <<0, 0>>]
    /\ target_resolution = NoTarget
    /\ cap = NoCapture
    /\ fps = 0
    /\ frame_count = 0
    /\ width = 0
    /\ height = 0
    /\ counted = 0
    /\ vmetrics = NoVMetrics
    /\ enhancement_params = EmptyEnhancement
    /\ out = NoWriter
    /\ vpc = "idle"
    /\ vresult = "none"
    /\ sample_indices = <<>>
    /\ source_pixel = 0
    /\ pixel = 0


\* ------------------------------------------------- process(): the stages
LoadAudio ==
    /\ pc = "load"
    /\ stages' = Append(stages, "load")
    /\ IF file.loadable
       THEN /\ audio' = [ndim |-> IF Len(file.data) = 1 THEN 1 ELSE 2, ch |-> file.data]
            /\ channels' = Len(file.data)
            /\ is_stereo' = (Len(file.data) > 1)
            /\ sr' = file.rate
            /\ analysis_audio' = ToMono(audio')
            /\ pc' = "analyze"
            /\ result' = result
       ELSE \* librosa.load raised; caught; process() returns False
            /\ pc' = "done"
            /\ result' = "False"
            /\ UNCHANGED <<audio, channels, is_stereo, sr, analysis_audio>>
    /\ UNCHANGED <<file, target_sr, processing_params, needs_processing, metrics,
                   rule_log, skipped, output, batch_vars, video_vars, gui_vars>>

\* np.max of an empty array raises ValueError; analyze_quality has no
\* handler and neither has process().
AnalyzeRaises ==
    /\ pc = "analyze"
    /\ Len(analysis_audio) = 0
    /\ stages' = Append(stages, "analyze")
    /\ pc' = "done"
    /\ result' = "raised"
    /\ UNCHANGED <<file, target_sr, audio, analysis_audio, sr, channels, is_stereo,
                   processing_params, needs_processing, metrics, rule_log, skipped,
                   output, batch_vars, video_vars, gui_vars>>

AnalyzeQuality ==
    /\ pc = "analyze"
    /\ Len(analysis_audio) > 0
    /\ \E nf \in NoiseFloorValues :
       \E db \in (IF Gt(nf, 0) THEN RatioDbValues ELSE {NaN}) :
       \E hf \in (IF HfMeasurable(sr) THEN HfRatioValues ELSE {NaN}) :
         LET peak == SeqMax([i \in 1..Len(analysis_audio) |-> Abs(analysis_audio[i])])
             m == [peak |-> peak, noise_floor |-> nf, snr |-> Snr(nf, db),
                   hf_ratio |-> hf, measured |-> TRUE]
             log == DeriveLog(m)
         IN  /\ Consistent(peak, nf, db)
             /\ metrics' = m
             /\ rule_log' = log
             /\ processing_params' = ParamsOf(log[4])
             /\ needs_processing' = log[4].needs_processing
             /\ pc' = NextStage("analyze", log[4].needs_processing, ParamsOf(log[4]))
    /\ stages' = Append(stages, "analyze")
    /\ UNCHANGED <<file, target_sr, audio, analysis_audio, sr, channels, is_stereo,
                   skipped, result, output, batch_vars, video_vars, gui_vars>>

AdaptiveNoiseReduction ==
    /\ pc = "noise_reduction"
    /\ stages' = Append(stages, "noise_reduction")
    /\ LET amount == processing_params.noise_reduction
           answers == ReduceNoiseAnswers(audio, amount)
       IN  \/ \E outs \in answers :
                /\ audio' = ApplyChannelwise(audio, channels, outs)
                /\ skipped' = skipped
           \/ \E outs \in answers : \E k \in 1..Len(audio.ch) :
                \* reduce_noise raised on channel k; caught and logged
                /\ audio' = ChannelwiseRaised(audio, outs, k)
                /\ skipped' = skipped \cup {"noise_reduction"}
    /\ pc' = NextStage("noise_reduction", needs_processing, processing_params)
    /\ ForgetLocals
    /\ UNCHANGED <<file, target_sr, analysis_audio, sr, channels, is_stereo,
                   processing_params, needs_processing, result, output, batch_vars, video_vars, gui_vars>>

AdaptiveHighPass ==
    /\ pc = "high_pass"
    /\ stages' = Append(stages, "high_pass")
    /\ LET outs == [c \in 1..Len(audio.ch) |-> HighPassOutput(audio.ch[c])]
       IN  \/ /\ audio' = ApplyChannelwise(audio, channels, outs)
              /\ skipped' = skipped
           \/ \E k \in 1..Len(audio.ch) :
                \* butter or filtfilt raised (on channel k); caught and logged
                /\ audio' = ChannelwiseRaised(audio, outs, k)
                /\ skipped' = skipped \cup {"high_pass"}
    /\ pc' = NextStage("high_pass", needs_processing, processing_params)
    /\ ForgetLocals
    /\ UNCHANGED <<file, target_sr, analysis_audio, sr, channels, is_stereo,
                   processing_params, needs_processing, result, output, batch_vars, video_vars, gui_vars>>

Normalize ==
    /\ pc = "normalize"
    /\ stages' = Append(stages, "normalize")
    /\ audio' = SmartNormalize(audio, processing_params.normalization_target)
    /\ pc' = NextStage("normalize", needs_processing, processing_params)
    /\ ForgetLocals
    /\ UNCHANGED <<file, target_sr, analysis_audio, sr, channels, is_stereo,
                   processing_params, needs_processing, skipped, result, output, batch_vars, video_vars, gui_vars>>

Limit ==
    /\ pc = "limit"
    /\ stages' = Append(stages, "limit")
    /\ audio' = GentleLimiter(audio)
    /\ pc' = NextStage("limit", needs_processing, processing_params)
    /\ UNCHANGED <<file, target_sr, analysis_audio, sr, channels, is_stereo,
                   processing_params, needs_processing, metrics, rule_log, skipped,
                   result, output, batch_vars, video_vars, gui_vars>>

ResampleIfNeeded ==
    /\ pc = "resample"
    /\ stages' = Append(stages, "resample")
    /\ IF sr = target_sr
       THEN /\ audio' = ResampleIfNeededResult(audio, sr, target_sr).audio
            /\ sr' = ResampleIfNeededResult(audio, sr, target_sr).sr
            /\ pc' = NextStage("resample", needs_processing, processing_params)
            /\ result' = result
       ELSE IF ResampleRaises(sr, target_sr)
       THEN \* no handler here nor in process(): the exception reaches the caller
            /\ pc' = "done"
            /\ result' = "raised"
            /\ UNCHANGED <<audio, sr>>
       ELSE /\ audio' = ResampleIfNeededResult(audio, sr, target_sr).audio
            /\ sr' = ResampleIfNeededResult(audio, sr, target_sr).sr
            /\ pc' = NextStage("resample", needs_processing, processing_params)
            /\ result' = result
    /\ UNCHANGED <<file, target_sr, analysis_audio, channels, is_stereo,
                   processing_params, needs_processing, metrics, rule_log, skipped,
                   output, batch_vars, video_vars, gui_vars>>

Restore ==
    /\ pc = "restore"
    /\ stages' = Append(stages, "restore")
    /\ audio' = RestoreStereo(audio, is_stereo)
    /\ pc' = NextStage("restore", needs_processing, processing_params)
    /\ result' = "True"
    /\ UNCHANGED <<file, target_sr, analysis_audio, sr, channels, is_stereo,
                   processing_params, needs_processing, metrics, rule_log, skipped,
                   output, batch_vars, video_vars, gui_vars>>

\* save_audio() after process() returned True, as every caller in the
\* repository does: the file is written, or sf.write raised and None is
\* returned.
SaveAudio ==
    /\ pc = "done"
    /\ result = "True"
    /\ \/ output' = WrittenFile(audio, is_stereo, sr)
       \/ output' = NoOutput
    /\ pc' = "saved"
    /\ UNCHANGED <<file, target_sr, audio, analysis_audio, sr, channels, is_stereo,
                   processing_params, needs_processing, metrics, rule_log, stages,
                   skipped, result, batch_vars, video_vars, gui_vars>>

\* One AudioCleaner, constructed on one file, running process() once, then
\* save_audio().
Init ==
    /\ file \in Files
    /\ target_sr \in TargetRates
    /\ pc = "load"
    /\ NewCleaner
    /\ NoBatch
    /\ NoEnhancer
    /\ NoGui

Next ==
    \/ LoadAudio
    \/ AnalyzeRaises
    \/ AnalyzeQuality
    \/ AdaptiveNoiseReduction
    \/ AdaptiveHighPass
    \/ Normalize
    \/ Limit
    \/ ResampleIfNeeded
    \/ Restore
    \/ SaveAudio

Spec == Init /\ [][Next]_vars

\* ------------------------------------------------------ batch drivers
\* audio_enhancer/cli.py main, video_enhancer/cli.py main, and
\* examples/batch_process.py process_audio_folder / process_video_folder.
Drivers == {"audio_cli", "video_cli", "batch_audio", "batch_video", "gui_audio"}

\* What one file of a batch does to the pipeline run on it: what process()
\* gives (True, False, or an exception, as `result` above) and, for audio,
\* what save_audio() gives after a True ("path", or "None" on a write error).
BatchFiles ==
    {[process |-> "True", save |-> "path"], [process |-> "True", save |-> "None"],
     [process |-> "False", save |-> "None"], [process |-> "raised", save |-> "None"]}

Batches == UNION {[1..n -> BatchFiles] : n \in 1..MaxFiles}

\* One iteration of `for file_path in files` in audio_enhancer/cli.py main;
\* the loop's end is `return 0`.
AudioCliStep ==
    /\ driver = "audio_cli"
    /\ exit_code = "running"
    /\ idx <= Len(batch)
    /\ LET f == batch[idx]
           goes_on == dry_run \/ (f.process = "True" /\ f.save = "path")
       IN  /\ attempted' = IF dry_run THEN attempted ELSE attempted \cup {idx}
           /\ saved' = IF ~dry_run /\ f.process = "True" /\ f.save = "path"
                       THEN saved \cup {idx} ELSE saved
           /\ idx' = IF goes_on THEN idx + 1 ELSE idx
           /\ exit_code' =
                IF goes_on THEN (IF idx = Len(batch) THEN "0" ELSE "running")
                ELSE IF f.process = "raised" THEN "raised"
                ELSE "1"
    /\ UNCHANGED <<driver, dry_run, batch, successful, failed, audio_vars, video_vars, gui_vars>>

\* One iteration of the loop of video_enhancer/cli.py main.
VideoCliStep ==
    /\ driver = "video_cli"
    /\ exit_code = "running"
    /\ idx <= Len(batch)
    /\ LET f == batch[idx]
           goes_on == dry_run \/ f.process = "True"
       IN  /\ attempted' = IF dry_run THEN attempted ELSE attempted \cup {idx}
           /\ saved' = IF ~dry_run /\ f.process = "True" THEN saved \cup {idx} ELSE saved
           /\ idx' = IF goes_on THEN idx + 1 ELSE idx
           /\ exit_code' =
                IF goes_on THEN (IF idx = Len(batch) THEN "0" ELSE "running")
                ELSE IF f.process = "raised" THEN "raised"
                ELSE "1"
    /\ UNCHANGED <<driver, dry_run, batch, successful, failed, audio_vars, video_vars, gui_vars>>

\* One iteration of the loop of process_audio_folder: the body is inside
\* try/except Exception, and save_audio()'s return value is not looked at.
BatchAudioStep ==
    /\ driver = "batch_audio"
    /\ exit_code = "running"
    /\ idx <= Len(batch)
    /\ LET f == batch[idx]
       IN  /\ attempted' = attempted \cup {idx}
           /\ saved' = IF f.process = "True" /\ f.save = "path"
                       THEN saved \cup {idx} ELSE saved
           /\ successful' = IF f.process = "True" THEN successful + 1 ELSE successful
           /\ failed' = IF f.process = "True" THEN failed ELSE failed + 1
    /\ idx' = idx + 1
    /\ exit_code' = IF idx = Len(batch) THEN "returned" ELSE "running"
    /\ UNCHANGED <<driver, dry_run, batch, audio_vars, video_vars, gui_vars>>

\* One iteration of the loop of process_video_folder.
BatchVideoStep ==
    /\ driver = "batch_video"
    /\ exit_code = "running"
    /\ idx <= Len(batch)
    /\ LET f == batch[idx]
       IN  /\ attempted' = attempted \cup {idx}
           /\ saved' = IF f.process = "True" THEN saved \cup {idx} ELSE saved
           /\ successful' = IF f.process = "True" THEN successful + 1 ELSE successful
           /\ failed' = IF f.process = "True" THEN failed ELSE failed + 1
    /\ idx' = idx + 1
    /\ exit_code' = IF idx = Len(batch) THEN "returned" ELSE "running"
    /\ UNCHANGED <<driver, dry_run, batch, audio_vars, video_vars, gui_vars>>

\* One iteration of the loop of ModernAudioCleanerGUI.process_files with no
\* Stop pressed: the body is inside try/except Exception and a file counts
\* as successful only when save_audio() returned a path.
GuiAudioStep ==
    /\ driver = "gui_audio"
    /\ exit_code = "running"
    /\ idx <= Len(batch)
    /\ LET f == batch[idx]
           ok == f.process = "True" /\ f.save = "path"
       IN  /\ attempted' = attempted \cup {idx}
           /\ saved' = IF ok THEN saved \cup {idx} ELSE saved
           /\ successful' = IF ok THEN successful + 1 ELSE successful
           /\ failed' = IF ok THEN failed ELSE failed + 1
    /\ idx' = idx + 1
    /\ exit_code' = IF idx = Len(batch) THEN "returned" ELSE "running"
    /\ UNCHANGED <<driver, dry_run, batch, audio_vars, video_vars, gui_vars>>

\* A driver started on a non-empty list of files (each driver rejects an
\* empty one before its loop); --dry-run exists in the two CLIs only.
InitBatch ==
    /\ driver \in Drivers
    /\ dry_run \in (IF driver \in {"audio_cli", "video_cli"} THEN BOOLEAN ELSE {FALSE})
    /\ batch \in Batches
    /\ idx = 1
    /\ attempted = {}
    /\ saved = {}
    /\ successful = 0
    /\ failed = 0
    /\ exit_code = "running"
    /\ NoCleaner
    /\ NoEnhancer
    /\ NoGui

NextBatch ==
    \/ AudioCliStep
    \/ VideoCliStep
    \/ BatchAudioStep
    \/ BatchVideoStep
    \/ GuiAudioStep

SpecBatch == InitBatch /\ [][NextBatch]_vars

\* ------------------------------------------- restore_stereo on its own
\* Channel data of sources with 2..MaxLayoutChannels channels.
LayoutData ==
    UNION {{[c \in 1..n |-> Wave(lv[c])] : lv \in [1..n -> ChannelLevels]}
           : n \in 2..MaxLayoutChannels}

\* A cleaner that has loaded a non-empty file, and whose buffer is either
\* what load_audio left or its mono mixdown (a 1-D array): the states
\* restore_stereo() is written for.
InitRestore ==
    /\ \E d \in MonoData \cup LayoutData : \E r \in SourceRates : \E collapsed \in BOOLEAN :
         LET loaded == [ndim |-> IF Len(d) = 1 THEN 1 ELSE 2, ch |-> d]
         IN  /\ file = [loadable |-> TRUE, data |-> d, rate |-> r]
             /\ channels = Len(d)
             /\ is_stereo = (Len(d) > 1)
             /\ sr = r
             /\ analysis_audio = ToMono(loaded)
             /\ audio = IF collapsed THEN [ndim |-> 1, ch |-> <<ToMono(loaded)>>]
                        ELSE loaded
             /\ stages = IF collapsed THEN <<"load", "to_mono">> ELSE <<"load">>
    /\ target_sr = 48000
    /\ pc = "restore_call"
    /\ processing_params = NoParams
    /\ needs_processing = FALSE
    /\ metrics = NoMetrics
    /\ rule_log = <<>>
    /\ skipped = {}
    /\ result = "none"
    /\ output = NoOutput
    /\ NoBatch
    /\ NoEnhancer
    /\ NoGui

\* A call of restore_stereo().
RestoreStereoCall ==
    /\ pc = "restore_call"
    /\ audio' = RestoreStereo(audio, is_stereo)
    /\ stages' = Append(stages, "restore")
    /\ pc' = "returned"
    /\ UNCHANGED <<file, target_sr, analysis_audio, sr, channels, is_stereo,
                   processing_params, needs_processing, metrics, rule_log, skipped,
                   result, output, batch_vars, video_vars, gui_vars>>

NextRestore == RestoreStereoCall

SpecRestore == InitRestore /\ [][NextRestore]_vars

\* ------------------------------------------- VideoEnhancer.process()
\* analyze_video: open the capture and read its properties.
OpenCapture ==
    /\ vpc = "open"
    /\ IF ~video.openable
       THEN \* isOpened() is false: nothing is held; analyze_video returns False
            /\ cap' = [state |-> "closed", pos |-> 0]
            /\ vpc' = "done"
            /\ vresult' = "False"
            /\ UNCHANGED <<fps, frame_count, width, height>>
       ELSE /\ cap' = [state |-> "open", pos |-> 0]
            /\ \E rate \in ReportedFps : \E count \in ReportedCounts(video.frames) :
                 /\ fps' = rate
                 /\ frame_count' = count
                 /\ vpc' = IF NeedsRecount(count, rate) THEN "count" ELSE "check"
            /\ width' = video.size[1]
            /\ height' = video.size[2]
            /\ vresult' = vresult
    /\ UNCHANGED <<choice, video, target_resolution, counted, vmetrics,
                   enhancement_params, out, audio_vars, batch_vars, gui_vars,
                   sample_indices, pixel_vars>>

\* One pass of the manual counting loop in which read() gave a frame.
CountRead ==
    /\ vpc = "count"
    /\ ReadFrame(cap, video).ret
    /\ cap' = ReadFrame(cap, video).cap
    /\ counted' = counted + 1
    /\ UNCHANGED <<choice, video, target_resolution, fps, frame_count, width, height,
                   vmetrics, enhancement_params, out, vpc, vresult, audio_vars, batch_vars, gui_vars,
                   sample_indices, pixel_vars>>

\* The pass in which read() gave nothing: the count is taken, the cursor
\* set back to frame 0 and a missing fps assumed to be 30.
CountEnd ==
    /\ vpc = "count"
    /\ ~ReadFrame(cap, video).ret
    /\ frame_count' = counted
    /\ cap' = SeekFrame(cap, 0)
    /\ fps' = IF fps <= 0 THEN 30 ELSE fps
    /\ vpc' = "check"
    /\ UNCHANGED <<choice, video, target_resolution, width, height, counted, vmetrics,
                   enhancement_params, out, vresult, audio_vars, batch_vars, gui_vars,
                   sample_indices, pixel_vars>>

\* `if self.frame_count <= 0: return False`; process() passes the False on.
\* The capture stays as it is.
CheckFrameCount ==
    /\ vpc = "check"
    /\ IF frame_count <= 0
       THEN vpc' = "done" /\ vresult' = "False"
       ELSE vpc' = "sample" /\ vresult' = vresult
    /\ counted' = 0
    /\ UNCHANGED <<choice, video, target_resolution, cap, fps, frame_count, width,
                   height, vmetrics, enhancement_params, out, audio_vars, batch_vars, gui_vars,
                   sample_indices, pixel_vars>>

\* The sampling loop and the averages: each index is sought and read, a
\* failed read is passed over.
SampleFrames ==
    /\ vpc = "sample"
    /\ LET indices == SampleIndices(frame_count)
           n_read == Cardinality({i \in 1..Len(indices) : indices[i] < video.frames})
           last == indices[Len(indices)]
       IN  /\ sample_indices' = indices
           /\ vmetrics' \in AveragedMetrics(n_read)
           /\ cap' = IF last < video.frames
                     THEN ReadFrame(SeekFrame(cap, last), video).cap
                     ELSE SeekFrame(cap, last)
    /\ vpc' = "derive"
    /\ UNCHANGED <<choice, video, target_resolution, fps, frame_count, width, height,
                   counted, enhancement_params, out, vresult, audio_vars, batch_vars, gui_vars,
                   pixel_vars>>

\* The derivation, the reset of the cursor and `return True`.
DeriveParams ==
    /\ vpc = "derive"
    /\ enhancement_params' = DeriveEnhancement(vmetrics, width, height, target_resolution)
    /\ cap' = SeekFrame(cap, 0)
    /\ vpc' = "open_writer"
    /\ UNCHANGED <<choice, video, target_resolution, fps, frame_count, width, height,
                   counted, vmetrics, out, vresult, audio_vars, batch_vars, gui_vars,
                   sample_indices, pixel_vars>>

\* process(): the writer is created at the output size; when it did not
\* open, process() returns False at once.
OpenWriter ==
    /\ vpc = "open_writer"
    /\ LET size == OutputSize(width, height, enhancement_params)
       IN  \/ /\ out' = [state |-> "open", fps |-> fps, size |-> size, frames |-> <<>>]
              /\ vpc' = "loop"
              /\ vresult' = vresult
           \/ /\ out' = [state |-> "closed", fps |-> fps, size |-> size, frames |-> <<>>]
              /\ vpc' = "done"
              /\ vresult' = "False"
    /\ vmetrics' = NoVMetrics
    /\ UNCHANGED <<choice, video, target_resolution, cap, fps, frame_count, width,
                   height, counted, enhancement_params, audio_vars, batch_vars, gui_vars,
                   sample_indices, pixel_vars>>

\* One pass of the frame loop in which read() gave a frame: enhance, write.
ProcessFrame ==
    /\ vpc = "loop"
    /\ ReadFrame(cap, video).ret
    /\ cap' = ReadFrame(cap, video).cap
    /\ out' = [out EXCEPT !.frames =
                 Append(@, EnhanceFrame(ReadFrame(cap, video).frame, <<width, height>>,
                                        enhancement_params))]
    /\ UNCHANGED <<choice, video, target_resolution, fps, frame_count, width, height,
                   counted, vmetrics, enhancement_params, vpc, vresult, audio_vars, batch_vars, gui_vars,
                   sample_indices, pixel_vars>>

\* The pass in which read() gave nothing: both streams are released and
\* process() returns True.
FinishProcess ==
    /\ vpc = "loop"
    /\ ~ReadFrame(cap, video).ret
    /\ cap' = [cap EXCEPT !.state = "released"]
    /\ out' = [out EXCEPT !.state = "released"]
    /\ vpc' = "done"
    /\ vresult' = "True"
    /\ UNCHANGED <<choice, video, target_resolution, fps, frame_count, width, height,
                   counted, vmetrics, enhancement_params, audio_vars, batch_vars, gui_vars,
                   sample_indices, pixel_vars>>

\* One VideoEnhancer, constructed by a front end for the option the user
\* picked, running process() once.
InitVideo ==
    /\ \E front_end \in FrontEnds : \E c \in Choices(front_end) :
         /\ choice = c
         /\ target_resolution = TargetResolutionOf(front_end, c)
    /\ video \in Videos
    /\ cap = NoCapture
    /\ fps = 0
    /\ frame_count = 0
    /\ width = 0
    /\ height = 0
    /\ counted = 0
    /\ vmetrics = NoVMetrics
    /\ enhancement_params = EmptyEnhancement
    /\ out = NoWriter
    /\ vpc = "open"
    /\ vresult = "none"
    /\ sample_indices = <<>>
    /\ source_pixel = 0
    /\ pixel = 0
    /\ NoCleaner
    /\ NoBatch
    /\ NoGui

NextVideo ==
    \/ OpenCapture
    \/ CountRead
    \/ CountEnd
    \/ CheckFrameCount
    \/ SampleFrames
    \/ DeriveParams
    \/ OpenWriter
    \/ ProcessFrame
    \/ FinishProcess

SpecVideo == InitVideo /\ [][NextVideo]_vars

\* ------------------------------------------ the sample indices on their own
\* analyze_video at its sampling step, for a frame count that passed
\* `if self.frame_count <= 0`.
InitSample ==
    /\ frame_count \in 1..MaxSampledCount
    /\ vpc = "choose"
    /\ choice = "auto"
    /\ video = [openable |-> FALSE, frames |-> 0, size |-> <<0, 0>>]
    /\ target_resolution = NoTarget
    /\ cap = NoCapture
    /\ fps = 0
    /\ width = 0
    /\ height = 0
    /\ counted = 0
    /\ vmetrics = NoVMetrics
    /\ enhancement_params = EmptyEnhancement
    /\ out = NoWriter
    /\ vresult = "none"
    /\ sample_indices = <<>>
    /\ source_pixel = 0
    /\ pixel = 0
    /\ NoCleaner
    /\ NoBatch
    /\ NoGui

\* sample_indices = np.linspace(...)
ChooseSamples ==
    /\ vpc = "choose"
    /\ sample_indices' = SampleIndices(frame_count)
    /\ vpc' = "chosen"
    /\ UNCHANGED <<choice, video, target_resolution, cap, fps, frame_count, width,
                   height, counted, vmetrics, enhancement_params, out, vresult,
                   pixel_vars, audio_vars, batch_vars, gui_vars>>

NextSample == ChooseSamples

SpecSample == InitSample /\ [][NextSample]_vars

\* ------------------------------- the brightness/contrast stage on one pixel
\* The (contrast_adjust, brightness_adjust) pairs analysis can derive.
DerivablePairs ==
    {DeriveEnhancement([noise |-> 4, sharpness |-> 500, brightness |-> b,
                        contrast |-> c, measured |-> TRUE], 1920, 1080, NoTarget)
        : b \in BrightnessValues, c \in ContrastValues}

\* enhance_frame about to run steps 4 and 5 on a pixel of value x.
InitPixel ==
    /\ enhancement_params \in DerivablePairs
    /\ source_pixel \in 0..MaxPixel
    /\ pixel = source_pixel
    /\ vpc = "brightness"
    /\ choice = "auto"
    /\ video = [openable |-> FALSE, frames |-> 0, size |-> <<0, 0>>]
    /\ target_resolution = NoTarget
    /\ cap = NoCapture
    /\ fps = 0
    /\ frame_count = 0
    /\ width = 0
    /\ height = 0
    /\ counted = 0
    /\ vmetrics = NoVMetrics
    /\ out = NoWriter
    /\ vresult = "none"
    /\ sample_indices = <<>>
    /\ NoCleaner
    /\ NoBatch
    /\ NoGui

BrightnessPass ==
    /\ vpc = "brightness"
    /\ pixel' = BrightnessStage(pixel, enhancement_params)
    /\ vpc' = "contrast"
    /\ UNCHANGED <<choice, video, target_resolution, cap, fps, frame_count, width,
                   height, counted, vmetrics, enhancement_params, out, vresult,
                   sample_indices, source_pixel, audio_vars, batch_vars, gui_vars>>

ContrastPass ==
    /\ vpc = "contrast"
    /\ pixel' = ContrastStage(pixel, enhancement_params)
    /\ vpc' = "color"
    /\ UNCHANGED <<choice, video, target_resolution, cap, fps, frame_count, width,
                   height, counted, vmetrics, enhancement_params, out, vresult,
                   sample_indices, source_pixel, audio_vars, batch_vars, gui_vars>>

NextPixel ==
    \/ BrightnessPass
    \/ ContrastPass

SpecPixel == InitPixel /\ [][NextPixel]_vars

\* --------------------------------------------------- the GUI's batch worker
\* A worker thread is at the head of its loop ("loop"), inside the work on
\* file i ("file"), past the loop ("end"), waiting for its _reset_ui
\* ("reset") or gone ("exited"). `stopped` records that Stop was pressed
\* while the thread was running.
Running(t) == threads[t].at \in {"loop", "file"}

\* The window after files were added.
InitGui ==
    /\ files_to_process \in 1..MaxGuiFiles
    /\ is_processing = FALSE
    /\ start_btn = "normal"
    /\ stop_btn = "disabled"
    /\ threads = <<>>
    /\ NoCleaner
    /\ NoBatch
    /\ NoEnhancer

\* A click on Start: start_processing().
StartProcessing ==
    /\ start_btn = "normal"
    /\ files_to_process > 0
    /\ ~is_processing
    /\ Len(threads) < MaxThreads
    /\ is_processing' = TRUE
    /\ start_btn' = "disabled"
    /\ stop_btn' = "normal"
    /\ threads' = Append(threads, [at |-> "loop", i |-> 0, stopped |-> FALSE])
    /\ UNCHANGED <<files_to_process, audio_vars, batch_vars, video_vars>>

\* A click on Stop: stop_processing().
StopProcessing ==
    /\ stop_btn = "normal"
    /\ is_processing' = FALSE
    /\ start_btn' = "normal"
    /\ stop_btn' = "disabled"
    /\ threads' = [t \in 1..Len(threads) |->
                     IF Running(t) THEN [threads[t] EXCEPT !.stopped = TRUE]
                     ELSE threads[t]]
    /\ UNCHANGED <<files_to_process, audio_vars, batch_vars, video_vars>>

\* process_files at the head of its loop: the next file, or out of the loop
\* when the list is done or is_processing is False.
WorkerLoop(t) ==
    /\ threads[t].at = "loop"
    /\ threads' = [threads EXCEPT ![t].at =
                     IF threads[t].i < files_to_process /\ is_processing
                     THEN "file" ELSE "end"]
    /\ UNCHANGED <<files_to_process, is_processing, start_btn, stop_btn,
                   audio_vars, batch_vars, video_vars>>

\* The work on one file: process, save, count.
WorkerFile(t) ==
    /\ threads[t].at = "file"
    /\ threads' = [threads EXCEPT ![t].at = "loop", ![t].i = @ + 1]
    /\ UNCHANGED <<files_to_process, is_processing, start_btn, stop_btn,
                   audio_vars, batch_vars, video_vars>>

\* After the loop: is_processing = False and _reset_ui is handed to the
\* main loop.
WorkerEnd(t) ==
    /\ threads[t].at = "end"
    /\ is_processing' = FALSE
    /\ threads' = [threads EXCEPT ![t].at = "reset"]
    /\ UNCHANGED <<files_to_process, start_btn, stop_btn,
                   audio_vars, batch_vars, video_vars>>

\* _reset_ui run by the main loop.
ResetUi(t) ==
    /\ threads[t].at = "reset"
    /\ start_btn' = "normal"
    /\ stop_btn' = "disabled"
    /\ threads' = [threads EXCEPT ![t].at = "exited"]
    /\ UNCHANGED <<files_to_process, is_processing, audio_vars, batch_vars, video_vars>>

NextGui ==
    \/ StartProcessing
    \/ StopProcessing
    \/ \E t \in 1..Len(threads) : WorkerLoop(t)
    \/ \E t \in 1..Len(threads) : WorkerFile(t)
    \/ \E t \in 1..Len(threads) : WorkerEnd(t)
    \/ \E t \in 1..Len(threads) : ResetUi(t)

SpecGui == InitGui /\ [][NextGui]_vars

\* ================================================================ claims
Last(q) == q[Len(q)]

\* analyze_quality has returned (it did not raise).
Analyzed == Len(stages) >= 2 /\ ~(Len(stages) = 2 /\ result = "raised")

StageRank(st) ==
    CASE st = "load" -> 1 [] st = "analyze" -> 2 [] st = "noise_reduction" -> 3
      [] st = "high_pass" -> 4 [] st = "normalize" -> 5 [] st = "limit" -> 6
      [] st = "resample" -> 7 [] st = "restore" -> 8

\* C1: the stages process() invokes form an increasing selection of
\* load, analysis, noise reduction, high-pass, normalization, limiting,
\* resampling, channel restoration; whatever ran started with load then
\* analysis; and resampling runs only after normalization, and after limiting
\* whenever analysis flagged the limiter.
C1_StageOrder ==
    /\ \A i, j \in 1..Len(stages) : i < j => StageRank(stages[i]) < StageRank(stages[j])
    /\ Len(stages) >= 1 => stages[1] = "load"
    /\ Len(stages) >= 2 => stages[2] = "analyze"
    /\ \A i \in 1..Len(stages) :
         stages[i] = "resample" =>
            /\ \E j \in 1..(i - 1) : stages[j] = "normalize"
            /\ processing_params.needs_limiting => \E j \in 1..(i - 1) : stages[j] = "limit"

C1_AllStagesRan ==
    /\ pc = "done"
    /\ result = "True"
    /\ stages = <<"load", "analyze", "noise_reduction", "high_pass", "normalize",
                  "limit", "resample", "restore">>

\* C2: once analyze_quality has returned, noise_reduction is in [0, 0.8],
\* high_pass_cutoff is one of 0, 40, 60, 80 and normalization_target is in
\* (0, 1], whatever was measured.
C2_ParamRanges ==
    Analyzed =>
        /\ processing_params.noise_reduction \in 0..80
        /\ processing_params.high_pass_cutoff \in {0, 40, 60, 80}
        /\ processing_params.normalization_target \in 1..100

C2_ExtremeParams ==
    /\ metrics.measured
    /\ processing_params.noise_reduction = 80
    /\ processing_params.high_pass_cutoff = 80
    /\ processing_params.normalization_target = 75

\* C3: the amount after the SNR rule is 0.7 below 15 dB, 0.5 in [15, 25),
\* 0.3 in [25, 40) and 0.0 from 40 dB up, the sentinel 100 of a noise floor
\* that is not positive included; the rule sets needs_processing in the first
\* three bands exactly; and no higher SNR would have given a larger amount.
C3_SnrBands ==
    metrics.measured =>
        LET snr == metrics.snr
            nr1 == rule_log[1].noise_reduction
        IN  /\ snr < 15 => nr1 = 70
            /\ (15 <= snr /\ snr < 25) => nr1 = 50
            /\ (25 <= snr /\ snr < 40) => nr1 = 30
            /\ snr >= 40 => nr1 = 0
            /\ ~Gt(metrics.noise_floor, 0) => (snr = 100 /\ nr1 = 0)
            /\ rule_log[1].needs_processing = (snr < 40)
            /\ \A d \in RatioDbValues \cup {100} :
                 d >= snr => RuleSnr(DefaultParams, d).noise_reduction <= nr1

C3_LightNoiseBand ==
    /\ metrics.measured
    /\ metrics.snr = 39
    /\ rule_log[1].noise_reduction = 30
    /\ rule_log[1].needs_processing

\* C4: the rules run in the order SNR, high-frequency ratio, noise floor,
\* peak, each changing only its own fields: the final amount is
\* min(band + 0.1, 0.8) when hf_ratio > 0.3 and the band value otherwise, the
\* noise-floor and peak rules leave the amount alone, and needs_processing,
\* once true, stays true through the later rules.
C4_RulesAccumulate ==
    metrics.measured =>
        LET band == rule_log[1].noise_reduction
        IN  /\ processing_params.noise_reduction =
                 (IF Gt(metrics.hf_ratio, 30) THEN Min(band + 10, 80) ELSE band)
            /\ rule_log[2].noise_reduction = processing_params.noise_reduction
            /\ rule_log[3].noise_reduction = rule_log[2].noise_reduction
            /\ rule_log[4].noise_reduction = rule_log[3].noise_reduction
            /\ rule_log[1].high_pass_cutoff = 0 /\ rule_log[2].high_pass_cutoff = 0
            /\ rule_log[4].high_pass_cutoff = rule_log[3].high_pass_cutoff
            /\ \A k \in 1..3 : rule_log[k].normalization_target = 80
                               /\ ~rule_log[k].needs_limiting
            /\ \A k \in 1..3 : rule_log[k].needs_processing => rule_log[k + 1].needs_processing
            /\ needs_processing = rule_log[4].needs_processing
            /\ processing_params = ParamsOf(rule_log[4])

C4_HfRaisesBand ==
    /\ metrics.measured
    /\ Gt(metrics.hf_ratio, 30)
    /\ rule_log[1].noise_reduction = 50
    /\ rule_log[1].needs_processing
    /\ processing_params.noise_reduction = 60
    /\ processing_params.high_pass_cutoff = 80
    /\ needs_processing

\* C5: the cutoff is 80 Hz above a noise floor of 0.01, 60 Hz in (0.005,
\* 0.01], 40 Hz in (0.002, 0.005] and 0 otherwise; the rule sets
\* needs_processing in the 80 and 60 Hz bands only; and no lower noise floor
\* would have given a higher cutoff.
C5_NoiseFloorBands ==
    metrics.measured =>
        LET nf == metrics.noise_floor
            cut == processing_params.high_pass_cutoff
        IN  /\ Gt(nf, 100) => cut = 80
            /\ (Gt(nf, 50) /\ nf <= 100) => cut = 60
            /\ (Gt(nf, 20) /\ nf <= 50) => cut = 40
            /\ ~Gt(nf, 20) => cut = 0
            /\ rule_log[3].needs_processing =
                 (rule_log[2].needs_processing \/ cut \in {60, 80})
            /\ \A x \in NoiseFloorValues \ {NaN} :
                 (nf # NaN /\ x <= nf) => RuleNoiseFloor(DefaultParams, x).high_pass_cutoff <= cut

C5_MinimalRumbleBand ==
    /\ metrics.measured
    /\ metrics.noise_floor = 21
    /\ processing_params.high_pass_cutoff = 40
    /\ ~rule_log[3].needs_processing

\* C6: a peak above 0.99 gives target 0.75 with needs_limiting and
\* needs_processing set; a peak below 0.2 gives 0.8 and sets needs_processing;
\* a peak in [0.2, 0.5) gives 0.8 and one in [0.5, 0.99] gives 0.85, neither
\* touching needs_processing; needs_limiting holds exactly above 0.99.
C6_PeakBands ==
    metrics.measured =>
        LET pk == metrics.peak * 100
            p == processing_params
        IN  /\ pk > 99 * Unit =>
                 (p.normalization_target = 75 /\ p.needs_limiting /\ needs_processing)
            /\ pk < 20 * Unit => (p.normalization_target = 80 /\ needs_processing)
            /\ (20 * Unit <= pk /\ pk < 50 * Unit) =>
                 (p.normalization_target = 80
                  /\ needs_processing = rule_log[3].needs_processing)
            /\ (50 * Unit <= pk /\ pk <= 99 * Unit) =>
                 (p.normalization_target = 85
                  /\ needs_processing = rule_log[3].needs_processing)
            /\ p.needs_limiting = (pk > 99 * Unit)

C6_ClippingBranch ==
    /\ metrics.measured
    /\ metrics.peak * 100 > 99 * Unit
    /\ processing_params.needs_limiting
    /\ processing_params.normalization_target = 75

\* C7 as stated: after smart_normalize the absolute maximum over all samples
\* of all channels equals the target exactly, and an all-zero buffer is left
\* unchanged.
C7_NormalizeExact ==
    [][pc = "normalize" =>
         IF Silent(audio) THEN audio' = audio
         ELSE BufferPeak(audio') * 100 = processing_params.normalization_target * Unit]_vars

\* C7: after smart_normalize the absolute maximum over all samples of all
\* channels is the target to within rounding (one grid step), and an all-zero
\* buffer is left unchanged.
C7_NormalizeWithinRounding ==
    [][pc = "normalize" =>
         IF Silent(audio) THEN audio' = audio
         ELSE Abs(BufferPeak(audio') * 100
                  - processing_params.normalization_target * Unit) <= 100]_vars

C7_StereoNormalizedOffGrid ==
    /\ Len(stages) > 0
    /\ Last(stages) = "normalize"
    /\ channels = 2
    /\ ~Silent(audio)
    /\ BufferPeak(audio) * 100 # processing_params.normalization_target * Unit

\* C8 (first part): a delegated stage that fails leaves every channel of the
\* buffer as it was.
C8_BufferUnchangedOnFailure == [][skipped' # skipped => audio' = audio]_vars

\* C8: when noise reduction or the high-pass filter failed, normalization,
\* resampling and restoration still ran and process() returned True.
C8_DelegatedFailureNonFatal ==
    (pc = "done" /\ skipped # {}) =>
        /\ result = "True"
        /\ \A st \in {"normalize", "resample", "restore"} :
             \E i \in 1..Len(stages) : stages[i] = st

\* C9: process() always hands its caller a success/failure value; no
\* exception leaves it.
C9_DefiniteResult == pc = "done" => result \in {"True", "False"}

\* C10: in every batch driver a file whose processing fails does not stop
\* the batch: when the driver ends, process() has been called on every file.
C10_BatchContinues ==
    (exit_code # "running" /\ ~dry_run) => attempted = 1..Len(batch)

\* C10, for examples/batch_process.py alone.
C10_FolderBatchContinues ==
    (exit_code # "running" /\ driver \in {"batch_audio", "batch_video"})
        => attempted = 1..Len(batch)


\* The buffer was a 1-D mixdown when restore_stereo() was called.
Collapsed == Len(stages) >= 2 /\ stages[2] = "to_mono"

\* C11 as stated: for a source of N >= 2 channels whose buffer is a single
\* mono signal, restore_stereo() leaves a buffer of exactly N channels, each
\* a copy of that signal.
C11_RestoresOriginalCount ==
    [][(pc = "restore_call" /\ channels >= 2 /\ audio.ndim = 1) =>
         /\ audio'.ndim = 2
         /\ Len(audio'.ch) = channels
         /\ \A c \in 1..Len(audio'.ch) : audio'.ch[c] = audio.ch[1]]_vars

\* C12: for a stereo source whose buffer is a single mono signal,
\* restore_stereo() leaves exactly 2 channels, identical sample for sample;
\* for a mono source, or a buffer that is still multi-channel, it leaves the
\* buffer unchanged.
C12_StereoRestored ==
    [][pc = "restore_call" =>
         /\ (channels = 2 /\ audio.ndim = 1) =>
               /\ audio'.ndim = 2
               /\ Len(audio'.ch) = 2
               /\ audio'.ch[1] = audio.ch[1]
               /\ audio'.ch[2] = audio.ch[1]
         /\ (channels = 1 \/ audio.ndim = 2) => audio' = audio]_vars

C12_StereoRebuiltFromMixdown ==
    /\ pc = "returned"
    /\ Collapsed
    /\ channels = 2
    /\ file.data[1] # file.data[2]
    /\ audio.ndim = 2
    /\ Len(audio.ch) = 2
    /\ audio.ch[1] = audio.ch[2]
    /\ ~Silent(audio)


\* C13: once process() has returned True the buffer's rate is
\* target_sample_rate, and the file a following save_audio() writes has that
\* rate and at least one frame; resample_if_needed() on a buffer already at
\* the target rate changes neither buffer nor rate, so a second application
\* gives what the first gave.
C13_ResampleToTarget ==
    /\ result = "True" => sr = target_sr
    /\ output.written => (output.rate = target_sr /\ output.frames > 0)
    /\ (audio.ndim # 0 /\ ~(sr # target_sr /\ ResampleRaises(sr, target_sr))) =>
          LET once == ResampleIfNeededResult(audio, sr, target_sr)
              twice == ResampleIfNeededResult(once.audio, once.sr, target_sr)
          IN  /\ twice = once
              /\ sr = target_sr => once = [audio |-> audio, sr |-> sr]

C13_SavedAtNewRate ==
    /\ pc = "saved"
    /\ output.written
    /\ file.rate = 16000
    /\ output.rate = 48000
    /\ output.frames > NumSamples


\* C14: in analyze_video the manual count runs exactly when the reported
\* frame count or the reported fps is <= 0; it reads the stream to its end,
\* makes the number of frames read the frame count, sets the cursor back to
\* frame 0 and turns an fps <= 0 into 30; analysis fails exactly when the
\* frame count it ends up with is <= 0, and sampling never starts with one.
C14_FrameCountRecovery ==
    [][/\ (vpc = "open" /\ vpc' # "done") =>
             ((frame_count' <= 0 \/ fps' <= 0) <=> vpc' = "count")
       /\ (vpc = "count" /\ vpc' = "check") =>
             /\ cap.pos = video.frames
             /\ counted = video.frames
             /\ frame_count' = video.frames
             /\ cap'.pos = 0
             /\ fps' = IF fps <= 0 THEN 30 ELSE fps
       /\ vpc = "check" =>
             /\ (frame_count <= 0) <=> (vresult' = "False" /\ vpc' = "done")
             /\ (frame_count > 0) <=> (vpc' = "sample")
       /\ vpc = "sample" => frame_count > 0]_vars

C14_RecountedWithFallbackFps ==
    /\ vpc = "check"
    /\ counted = 2
    /\ frame_count = 2
    /\ fps = 30
    /\ cap.pos = 0

\* The derivation of analyze_video has run.
VideoAnalyzed == enhancement_params.set

\* C15: with a target (tw, th) upscaling is on exactly when width < tw or
\* height < th, with factor max(tw/width, th/height); with no target the
\* factor is 2.0 when width < 640, 1.5 when width >= 640 and (width < 1280 or
\* height < 720), and upscaling is off otherwise.
C15_UpscaleRule ==
    VideoAnalyzed =>
        LET t == target_resolution
            p == enhancement_params
            f == enhancement_params.upscale_factor
        IN  IF t # NoTarget
            THEN /\ p.needs_upscaling <=> (width < t[1] \/ height < t[2])
                 /\ p.needs_upscaling =>
                       /\ f.num * width >= t[1] * f.den
                       /\ f.num * height >= t[2] * f.den
                       /\ \/ f.num * width = t[1] * f.den
                          \/ f.num * height = t[2] * f.den
            ELSE /\ width < 640 => (p.needs_upscaling /\ f.num = 2 * f.den)
                 /\ (width >= 640 /\ (width < 1280 \/ height < 720)) =>
                       (p.needs_upscaling /\ 2 * f.num = 3 * f.den)
                 /\ (width >= 1280 /\ height >= 720) => ~p.needs_upscaling

C15_SmallVideoDoubled ==
    /\ VideoAnalyzed
    /\ width = 480
    /\ height = 270
    /\ target_resolution = NoTarget
    /\ enhancement_params.needs_upscaling
    /\ enhancement_params.upscale_factor = [num |-> 2, den |-> 1]

\* C16: after a successful analyze_video upscale_factor >= 1.0, and it is
\* 1.0 exactly when needs_upscaling is false; denoise_strength is one of 0,
\* 3, 5, 10, sharpen_amount one of 0, 0.3, 0.8, 1.5 and contrast_adjust one
\* of 1.0, 1.15, 1.3.
C16_EnhancementRanges ==
    VideoAnalyzed =>
        LET p == enhancement_params
        IN  /\ p.upscale_factor.num >= p.upscale_factor.den
            /\ (p.upscale_factor.num = p.upscale_factor.den) <=> ~p.needs_upscaling
            /\ p.denoise_strength \in {0, 3, 5, 10}
            /\ p.sharpen_amount \in {0, 3, 8, 15}
            /\ p.contrast_adjust \in {100, 115, 130}

C16_StrongestEnhancement ==
    /\ VideoAnalyzed
    /\ target_resolution = <<1920, 1080>>
    /\ width = 2560
    /\ enhancement_params.needs_upscaling
    /\ enhancement_params.upscale_factor.num > enhancement_params.upscale_factor.den
    /\ enhancement_params.denoise_strength = 10
    /\ enhancement_params.sharpen_amount = 15
    /\ enhancement_params.contrast_adjust = 130

OpRank(op) ==
    CASE op = "denoise" -> 1 [] op = "upscale" -> 2 [] op = "sharpen" -> 3
      [] op = "brightness" -> 4 [] op = "contrast" -> 5 [] op = "color" -> 6

\* C17: every frame written went through the stages of enhance_frame in the
\* order denoise, upscale, sharpen, brightness/contrast, color, the same for
\* every frame, and each stage was applied exactly when its parameter is not
\* the default.
C17_FrameStageOrder ==
    \A k \in 1..Len(out.frames) :
        LET ops == out.frames[k].ops
            p == enhancement_params
            Has == [op \in {"denoise", "upscale", "sharpen", "brightness", "contrast",
                            "color"} |-> \E i \in 1..Len(ops) : ops[i] = op]
        IN  /\ \A i, j \in 1..Len(ops) : i < j => OpRank(ops[i]) < OpRank(ops[j])
            /\ Has["denoise"] <=> p.denoise_strength > 0
            /\ Has["upscale"] <=> p.needs_upscaling
            /\ Has["sharpen"] <=> p.sharpen_amount > 0
            /\ (Has["brightness"] \/ Has["contrast"]) <=>
                  (p.brightness_adjust # 0 \/ p.contrast_adjust # 100)
            /\ Has["color"] <=> p.color_enhance
            /\ ops = out.frames[1].ops

C17_EveryStageApplied ==
    /\ Len(out.frames) >= 2
    /\ out.frames[2].ops =
         <<"denoise", "upscale", "sharpen", "brightness", "contrast", "color">>

\* C18: the k-th frame written is the enhancement of the k-th frame of the
\* source, counted from frame 0, and when process() has returned True as
\* many frames were written as the source holds.
C18_FramesInArrivalOrder ==
    /\ \A k \in 1..Len(out.frames) :
         out.frames[k] = EnhanceFrame(k - 1, <<width, height>>, enhancement_params)
    /\ vresult = "True" => Len(out.frames) = video.frames

C18_WholeStreamWritten ==
    /\ vresult = "True"
    /\ video.frames = 2
    /\ Len(out.frames) = 2
    /\ out.frames[1].src = 0
    /\ out.frames[2].src = 1

\* C19 as stated: when process() returns failure (the input does not open,
\* no frames are found, or the output does not open) neither the capture nor
\* a writer is left open.
C19_FailureReleases ==
    vresult = "False" => (cap.state # "open" /\ out.state # "open")

\* C20 as stated: with the 'original' option picked, analysis never turns
\* upscaling on, whatever the size of the source.
C20_OriginalKeepsSize ==
    (VideoAnalyzed /\ choice = "original") => ~enhancement_params.needs_upscaling


\* C27 as stated: when process() has returned True, the noise-reduction
\* stage ran if analysis left noise_reduction > 0 and the high-pass stage ran
\* if it left high_pass_cutoff > 0.
C27_DerivedCorrectionsRun ==
    result = "True" =>
        /\ processing_params.noise_reduction > 0 =>
              \E i \in 1..Len(stages) : stages[i] = "noise_reduction"
        /\ processing_params.high_pass_cutoff > 0 =>
              \E i \in 1..Len(stages) : stages[i] = "high_pass"

\* The drivers that keep a count of successful and failed files.
Counting == driver \in {"batch_audio", "batch_video", "gui_audio"}

\* C29 as stated: in every driver that counts, the files counted successful
\* are the files whose output was saved, and successful + failed is the
\* number of files attempted.
C29_SuccessMeansSaved ==
    Counting =>
        /\ successful = Cardinality(saved)
        /\ successful + failed = Cardinality(attempted)

\* C30 as stated: inside process() the limiter changes no sample, and after
\* the normalization and limiting stages every |sample| <= 0.85.
C30_LimiterIdleExactBound ==
    [][/\ pc = "limit" => audio' = audio
       /\ (pc \in {"normalize", "limit"} /\ pc' = "resample") =>
             BufferPeak(audio') * 100 <= 85 * Unit]_vars

\* C30: inside process() the limiter runs only when needs_limiting is true,
\* the target then being 0.75, and changes no sample; after the normalization
\* and limiting stages every |sample| is at most 0.85 to within rounding (one
\* grid step).
C30_LimiterIdleWithinRounding ==
    [][/\ pc = "limit" =>
             /\ processing_params.needs_limiting
             /\ processing_params.normalization_target = 75
             /\ audio' = audio
       /\ (pc \in {"normalize", "limit"} /\ pc' = "resample") =>
             BufferPeak(audio') * 100 <= 85 * Unit + 100]_vars

C30_LimiterRanOnNormalized ==
    /\ Len(stages) > 0
    /\ Last(stages) = "limit"
    /\ processing_params.needs_limiting
    /\ BufferPeak(audio) * 100 >= 74 * Unit
    /\ BufferPeak(audio) < ThresholdLinear

\* C22: for every frame count n >= 1 the analyzer samples exactly
\* min(20, n) frame indices, all within [0, n-1], in non-decreasing order,
\* the first 0 and (for n >= 2) the last n-1; for n <= 20 every frame index
\* is sampled exactly once.
C22_SampleIndicesEvenlySpread ==
    vpc = "chosen" =>
        LET n == frame_count
            k == Len(sample_indices)
        IN  /\ k = Min(20, n)
            /\ \A i \in 1..k : sample_indices[i] \in 0..(n - 1)
            /\ \A i \in 1..k : \A j \in i..k : sample_indices[i] <= sample_indices[j]
            /\ sample_indices[1] = 0
            /\ n >= 2 => sample_indices[k] = n - 1
            /\ n <= 20 => \A f \in 0..(n - 1) :
                   Cardinality({i \in 1..k : sample_indices[i] = f}) = 1

C22_TwentyOfMany ==
    /\ vpc = "chosen"
    /\ frame_count = 50
    /\ Len(sample_indices) = 20
    /\ sample_indices[2] = 2
    /\ sample_indices[20] = 49

\* C23: whenever analyze_video() returns success the read cursor is at
\* frame 0, whichever frames sampling sought and whether or not the manual
\* count ran, so the enhancement loop starts at the first frame and has read
\* exactly the frames it has written.
C23_CursorResetAfterAnalysis ==
    /\ vpc = "open_writer" => cap.pos = 0
    /\ vpc = "loop" => cap.pos = Len(out.frames)

C23_ResetAfterScanAndSeeks ==
    /\ vpc = "open_writer"
    /\ fps = 30
    /\ frame_count = 2
    /\ sample_indices = <<0, 1>>
    /\ vmetrics.noise # NaN
    /\ cap.pos = 0

\* C24: the derivation matches the threshold tables for every averaged
\* metric: denoise_strength 10 / 5 / 3 / 0 for noise > 15 / > 8 / > 4 /
\* else; sharpen_amount 1.5 / 0.8 / 0.3 / 0.0 for sharpness < 100 / < 300 /
\* < 500 / else; brightness_adjust +30 below 80, -20 above 180, else 0;
\* each from its own metric only.
C24_ThresholdTables ==
    (vpc = "open_writer" /\ vmetrics.measured) =>
        LET m == vmetrics
            p == enhancement_params
        IN  /\ p.denoise_strength =
                  IF m.noise = NaN THEN 0
                  ELSE IF m.noise > 15 THEN 10
                  ELSE IF m.noise > 8 THEN 5
                  ELSE IF m.noise > 4 THEN 3
                  ELSE 0
            /\ p.sharpen_amount =
                  IF m.sharpness = NaN THEN 0
                  ELSE IF m.sharpness < 100 THEN 15
                  ELSE IF m.sharpness < 300 THEN 8
                  ELSE IF m.sharpness < 500 THEN 3
                  ELSE 0
            /\ p.brightness_adjust =
                  IF m.brightness = NaN THEN 0
                  ELSE IF m.brightness < 80 THEN 30
                  ELSE IF m.brightness > 180 THEN -20
                  ELSE 0

C24_MixedCorrections ==
    /\ vpc = "open_writer"
    /\ vmetrics.noise = 16
    /\ vmetrics.sharpness = 300
    /\ vmetrics.brightness = 181
    /\ enhancement_params.denoise_strength = 10
    /\ enhancement_params.sharpen_amount = 3
    /\ enhancement_params.brightness_adjust = -20

\* C25: contrast_adjust is 1.3 when contrast < 30, 1.15 when
\* 30 <= contrast < 50, else 1.0; color_enhance is true exactly when
\* contrast < 40, decided independently; color_enhance true always implies
\* contrast_adjust != 1.0.
C25_ContrastAndColor ==
    (vpc = "open_writer" /\ vmetrics.measured) =>
        LET c == vmetrics.contrast
            p == enhancement_params
        IN  /\ p.contrast_adjust =
                  IF c = NaN THEN 100
                  ELSE IF c < 30 THEN 130
                  ELSE IF c < 50 THEN 115
                  ELSE 100
            /\ p.color_enhance <=> (c # NaN /\ c < 40)
            /\ p.color_enhance => p.contrast_adjust # 100

C25_BothFire ==
    /\ vpc = "open_writer"
    /\ vmetrics.contrast = 39
    /\ enhancement_params.contrast_adjust = 115
    /\ enhancement_params.color_enhance

\* C26: the output stream is opened with the source frame rate (or the 30
\* fallback) and with dimensions (int(width*factor), int(height*factor))
\* when upscaling, else (width, height), and every frame enhance_frame()
\* returns has exactly the writer's dimensions.
C26_WriterSizeFixed ==
    out.state # "none" =>
        /\ out.fps = fps
        /\ fps > 0
        /\ out.size = IF enhancement_params.needs_upscaling
                      THEN <<ScaledDim(width, enhancement_params.upscale_factor),
                             ScaledDim(height, enhancement_params.upscale_factor)>>
                      ELSE <<width, height>>
        /\ \A k \in 1..Len(out.frames) : out.frames[k].size = out.size

C26_UpscaledFramesWritten ==
    /\ out.state = "released"
    /\ enhancement_params.needs_upscaling
    /\ Len(out.frames) = 2
    /\ out.size # <<width, height>>
    /\ out.frames[2].size = out.size
    /\ fps = 30

\* C21 as stated: for every pixel value x in [0,255] and every derivable
\* pair (contrast_adjust a, brightness_adjust b) the brightness/contrast
\* stage of enhance_frame() leaves a*x + b saturated to [0,255], also when
\* both passes run.
C21_AffineSaturated ==
    vpc = "color" =>
        pixel = Max(0, Min(MaxPixel,
                    RoundDiv(enhancement_params.contrast_adjust * source_pixel
                             + 100 * enhancement_params.brightness_adjust, 100)))

\* C28 as stated: in the GUI at most one worker thread is processing files
\* at any time under every interleaving of start_processing,
\* stop_processing and the worker, and a stopped worker starts no further
\* file.
C28_SingleWorker ==
    [][/\ Cardinality({t \in 1..Len(threads') : threads'[t].at \in {"loop", "file"}}) <= 1
       /\ \A t \in 1..Len(threads) :
            (threads[t].stopped /\ threads[t].at = "loop") => threads'[t].at # "file"]_vars

====
